---- MODULE Spec2Model ----
(***************************************************************************)
(* Model of streamlit_app.py, the Personal Finance Tracker.                *)
(*                                                                         *)
(* The script is run top to bottom once per user interaction of a browser  *)
(* tab (a session): it loads both CSV files (lines 66-67), runs the        *)
(* sidebar form (lines 73-101), and renders the dashboard (lines 107-167). *)
(* The two CSV files are the only state shared between runs and tabs.      *)
(*                                                                         *)
(* Representation.                                                         *)
(*  - A calendar date is <<year, month, day>>.  A cell of a Date column    *)
(*    in memory is either a pandas Timestamp (what pd.to_datetime makes)   *)
(*    or a datetime.date object (what st.date_input returns).              *)
(*  - A Date field of a CSV file is text; the text is modelled by its      *)
(*    format, "%Y-%m-%d" or "%Y-%m-%d %H:%M:%S", and the date it spells.   *)
(*  - A text cell is a string; the missing value NaN is the string NaN.    *)
(*  - An amount is a whole number of hundredths (0.01 is 1): the amounts   *)
(*    are two-decimal floats, which to_csv and read_csv carry unchanged.   *)
(*  - Category names are written without their emoji.                      *)
(***************************************************************************)
EXTENDS Integers, Sequences, FiniteSets, TLC

VARIABLES
    consistent_format,  \* pd.to_datetime parses every element with the format
                        \* of the first (pandas >= 2) or each on its own (pandas 1)
    tabs,               \* the browser tabs (sessions) in use
    income_file,        \* income_data.csv
    expenses_file,      \* expenses_data.csv
    pc,                 \* per tab: position of the script run
    income_df,          \* per tab: the script's income_df
    expenses_df,        \* per tab: the script's expenses_df
    form,               \* per tab: the widget values of the submitted form
    msg,                \* per tab: the sidebar message shown by the form
    raised,             \* per tab: the exception that ended the run, or "none"
    view                \* per tab: what the dashboard computed

vars == <<consistent_format, tabs, income_file, expenses_file, pc, income_df,
          expenses_df, form, msg, raised, view>>

\* ------------------------------------------------------------------ bounds

\* A submission is modelled while the loaded ledger holds fewer rows than this.
MaxRows == 2

Sessions == {1, 2}

\* The dates, texts and typed amounts the user enters.
Dates == {<<2023, 11, 30>>, <<2024, 1, 15>>}
Texts == {"", "Salary", "NA"}
Items == {"", "Rent"}
TypedAmounts == {0, 2}
CategoryChoices == {"unset", "Other"}

\* ------------------------------------------------------- program constants

\* st.number_input("Amount", min_value=0.01, ...), in hundredths
MIN_VALUE == 1

income_cols == <<"Date", "Source", "Amount">>
expense_cols == <<"Date", "Category", "Item", "Amount">>

expense_categories ==
    <<"Housing", "Food", "Transportation", "Entertainment",
      "Health", "Shopping", "Utilities", "Debt",
      "Education", "Gifts/Donations", "Investments", "Other">>

\* The missing value of a text column.
NaN == "<NaN>"

\* The strings pd.read_csv reads as missing by default.
NA_VALUES == {"", "#N/A", "#N/A N/A", "#NA", "-1.#IND", "-1.#QNAN", "-NaN",
              "-nan", "1.#IND", "1.#QNAN", "<NA>", "N/A", "NA", "NULL",
              "NaN", "n/a", "nan", "null"}

\* -------------------------------------------------------------- sequences

Range(s) == {s[i] : i \in DOMAIN s}

RECURSIVE SumAmount(_)
\* df['Amount'].sum()
SumAmount(rows) ==
    IF rows = <<>> THEN 0
    ELSE rows[Len(rows)].Amount + SumAmount(SubSeq(rows, 1, Len(rows) - 1))

IsPrefix(s, t) == Len(s) <= Len(t) /\ SubSeq(t, 1, Len(s)) = s

\* ------------------------------------------------------------ Date cells

Timestamp(d) == [type |-> "Timestamp", ymd |-> d]
DateObj(d) == [type |-> "date", ymd |-> d]

\* str() of a Date cell of an object column, as the csv writer writes it
StrOfCell(cell) ==
    IF cell.type = "Timestamp"
    THEN [fmt |-> "%Y-%m-%d %H:%M:%S", ymd |-> cell.ymd]
    ELSE [fmt |-> "%Y-%m-%d", ymd |-> cell.ymd]

\* The Date column has dtype datetime64: every cell is a Timestamp.
IsDatetime64(rows) == \A i \in DOMAIN rows : rows[i].Date.type = "Timestamp"

\* ------------------------------------------------------------ CSV files

MissingFile == [state |-> "missing", columns |-> <<>>, rows |-> <<>>]
EmptyFile == [state |-> "empty", columns |-> <<>>, rows |-> <<>>]
GarbledFile == [state |-> "garbled", columns |-> <<>>, rows |-> <<>>]

EmptyFrame(columns) == [columns |-> columns, rows |-> <<>>]

\* One row as df.to_csv(index=False) writes it.  A datetime64 Date column is
\* written as dates (all times are midnight); an object column is written
\* cell by cell with str().  A missing text value is written as the empty field.
CsvRow(row, datetime64) ==
    [c \in DOMAIN row |->
        IF c = "Date"
        THEN IF datetime64 THEN [fmt |-> "%Y-%m-%d", ymd |-> row[c].ymd]
             ELSE StrOfCell(row[c])
        ELSE IF c = "Amount" THEN row[c]
        ELSE IF row[c] = NaN THEN "" ELSE row[c]]

\* Mutant: the frame is written as it was before the new row was appended.
save_data_stale(df) ==
    [state |-> "csv",
     columns |-> df.columns,
     rows |-> [i \in 1..(Len(df.rows) - 1) |->
                 CsvRow(df.rows[i], IsDatetime64(df.rows))]]

\* save_data: the file becomes the whole frame, header first.
save_data(df) ==
    [state |-> "csv",
     columns |-> df.columns,
     rows |-> [i \in DOMAIN df.rows |-> CsvRow(df.rows[i], IsDatetime64(df.rows))]]

\* One row as pd.read_csv reads it: a text field among NA_VALUES is missing;
\* the Date field is still text.
ParsedRow(row) ==
    [c \in DOMAIN row |->
        IF c = "Date" \/ c = "Amount" THEN row[c]
        ELSE IF row[c] \in NA_VALUES THEN NaN ELSE row[c]]

\* pd.to_datetime(df['Date']) raises when, parsing with the format of the
\* first element, another element does not match it.
DateFormatMismatch(rows) ==
    \E i \in DOMAIN rows : rows[i].Date.fmt # rows[1].Date.fmt

to_datetime(rows) ==
    [i \in DOMAIN rows |-> [rows[i] EXCEPT !.Date = Timestamp(rows[i].Date.ymd)]]

\* Mutant: the EmptyDataError of an empty file is not caught.
load_data_uncaught(file, columns, consistent) ==
    IF file.state = "missing" THEN [raised |-> "none", df |-> EmptyFrame(columns)]
    ELSE IF file.state = "empty"
    THEN [raised |-> "EmptyDataError", df |-> EmptyFrame(columns)]
    ELSE IF file.state = "garbled"
    THEN [raised |-> "ParserError", df |-> EmptyFrame(columns)]
    ELSE LET parsed == [i \in DOMAIN file.rows |-> ParsedRow(file.rows[i])]
         IN  IF consistent /\ DateFormatMismatch(parsed)
             THEN [raised |-> "ValueError", df |-> EmptyFrame(columns)]
             ELSE [raised |-> "none",
                   df |-> [columns |-> file.columns, rows |-> to_datetime(parsed)]]

\* load_data(file_path, columns): the frame, or the exception that escapes.
load_data(file, columns, consistent) ==
    IF file.state = "missing" THEN [raised |-> "none", df |-> EmptyFrame(columns)]
    ELSE IF file.state = "empty" THEN [raised |-> "none", df |-> EmptyFrame(columns)]
    ELSE IF file.state = "garbled"
    THEN [raised |-> "ParserError", df |-> EmptyFrame(columns)]
    ELSE LET parsed == [i \in DOMAIN file.rows |-> ParsedRow(file.rows[i])]
         IN  IF consistent /\ DateFormatMismatch(parsed)
             THEN [raised |-> "ValueError", df |-> EmptyFrame(columns)]
             ELSE [raised |-> "none",
                   df |-> [columns |-> file.columns, rows |-> to_datetime(parsed)]]

\* ----------------------------------------------------------------- widgets

\* Mutant: the widget has no minimum.
number_input_unbounded(typed) == typed

\* st.number_input("Amount", min_value=0.01): an entry below the minimum is
\* not accepted by the widget, which keeps its default value, the minimum.
number_input(typed) == IF typed < MIN_VALUE THEN MIN_VALUE ELSE typed

\* Mutant: the initial selection is the last option.
selectbox_last(options, chosen) ==
    IF chosen = "unset" THEN options[Len(options)] ELSE chosen

\* st.selectbox("Category", expense_categories): the chosen option, or the
\* first option (index 0) when the user chose none.
selectbox(options, chosen) == IF chosen = "unset" THEN options[1] ELSE chosen

\* The widget values of a run in which no submit button was pressed, and of
\* the form after clear_on_submit.
DefaultForm ==
    [submitted |-> FALSE, transaction_type |-> "Income", date |-> <<2024, 1, 15>>,
     typed |-> MIN_VALUE, source |-> "", category |-> "unset", item |-> ""]

IncomeForms ==
    [submitted : {TRUE}, transaction_type : {"Income"}, date : Dates,
     typed : TypedAmounts, source : Texts, category : {"unset"}, item : {""}]

ExpenseForms ==
    [submitted : {TRUE}, transaction_type : {"Expense"}, date : Dates,
     typed : TypedAmounts, source : {""}, category : CategoryChoices, item : Items]

Forms == {DefaultForm} \cup IncomeForms \cup ExpenseForms

\* ------------------------------------------------------- transaction form

\* Mutant: the text is never found empty.
NotText_never(text) == FALSE

\* not source / not item: the text input is the empty string
NotText(text) == text = ""

new_income(f) ==
    [Date |-> DateObj(f.date), Source |-> f.source, Amount |-> number_input(f.typed)]

new_expense(f) ==
    [Date |-> DateObj(f.date), Category |-> selectbox(expense_categories, f.category),
     Item |-> f.item, Amount |-> number_input(f.typed)]

\* Mutant: the new row is put first.
concat_first(df, new) == [columns |-> df.columns, rows |-> <<new>> \o df.rows]

\* pd.concat([df, new], ignore_index=True)
concat(df, new) == [columns |-> df.columns, rows |-> Append(df.rows, new)]

\* ------------------------------------------------------------- dashboard

\* Mutant: the expense total is taken from the income frame.
Totals_same_frame(inc, exp) ==
    [total_income |-> SumAmount(inc.rows),
     total_expenses |-> SumAmount(inc.rows),
     balance |-> SumAmount(inc.rows) - SumAmount(inc.rows)]

\* total_income, total_expenses, balance
Totals(inc, exp) ==
    [total_income |-> SumAmount(inc.rows),
     total_expenses |-> SumAmount(exp.rows),
     balance |-> SumAmount(inc.rows) - SumAmount(exp.rows)]

MonthIndex(ymd) == ymd[1] * 12 + ymd[2] - 1

SetMin(S) == CHOOSE x \in S : \A y \in S : x <= y
SetMax(S) == CHOOSE x \in S : \A y \in S : y <= x

RECURSIVE Ascending(_)
Ascending(S) == IF S = {} THEN <<>> ELSE <<SetMin(S)>> \o Ascending(S \ {SetMin(S)})

\* Mutant: only the months that hold a row.
ResampleIndex_present(rows) == {MonthIndex(rows[i].Date.ymd) : i \in DOMAIN rows}

\* The index of df.set_index('Date').resample('M'): every month from the
\* month of the earliest row to the month of the latest, none for no rows.
ResampleIndex(rows) ==
    IF rows = <<>> THEN {}
    ELSE LET ms == {MonthIndex(rows[i].Date.ymd) : i \in DOMAIN rows}
         IN  SetMin(ms) .. SetMax(ms)

RECURSIVE MonthSum(_, _)
\* ['Amount'].sum() of one month's bin
MonthSum(rows, m) ==
    IF rows = <<>> THEN 0
    ELSE (IF MonthIndex(rows[Len(rows)].Date.ymd) = m THEN rows[Len(rows)].Amount ELSE 0)
         + MonthSum(SubSeq(rows, 1, Len(rows) - 1), m)

MonthAbbr == <<"Jan", "Feb", "Mar", "Apr", "May", "Jun",
               "Jul", "Aug", "Sep", "Oct", "Nov", "Dec">>

\* .dt.strftime('%Y-%b')
strftime(m) == [Y |-> m \div 12, b |-> MonthAbbr[(m % 12) + 1]]

\* pd.concat([income_monthly, expense_monthly], axis=1).fillna(0).reset_index()
\* with the Date column formatted: the union of the two indexes in ascending
\* order, 0 where a series has no bin.
monthly_summary(inc, exp) ==
    LET idx == Ascending(ResampleIndex(inc.rows) \cup ResampleIndex(exp.rows))
    IN  [k \in DOMAIN idx |->
            [Date |-> strftime(idx[k]),
             Income |-> IF idx[k] \in ResampleIndex(inc.rows)
                        THEN MonthSum(inc.rows, idx[k]) ELSE 0,
             Expense |-> IF idx[k] \in ResampleIndex(exp.rows)
                         THEN MonthSum(exp.rows, idx[k]) ELSE 0]]

\* expenses_df.groupby('Category')['Amount'].sum()
category_expenses(exp) ==
    {[Category |-> c,
      Amount |-> SumAmount(SelectSeq(exp.rows, LAMBDA r : r.Category = c))] :
        c \in {exp.rows[i].Category : i \in DOMAIN exp.rows} \ {NaN}}

NoView ==
    [total_income |-> 0, total_expenses |-> 0, balance |-> 0,
     category_expenses |-> {}, chart |-> "none", monthly_summary |-> <<>>]

\* What the dashboard tab computes.  resample needs a DatetimeIndex: with a
\* datetime.date object in a Date column it raises TypeError.
Render(inc, exp) ==
    [total_income |-> Totals(inc, exp).total_income,
     total_expenses |-> Totals(inc, exp).total_expenses,
     balance |-> Totals(inc, exp).balance,
     category_expenses |-> category_expenses(exp),
     chart |-> IF inc.rows = <<>> /\ exp.rows = <<>> THEN "info"
               ELSE IF IsDatetime64(inc.rows) /\ IsDatetime64(exp.rows) THEN "bar"
               ELSE "TypeError",
     monthly_summary |-> IF (inc.rows # <<>> \/ exp.rows # <<>>)
                            /\ IsDatetime64(inc.rows) /\ IsDatetime64(exp.rows)
                         THEN monthly_summary(inc, exp) ELSE <<>>]

\* ------------------------------------------------------------------ state

InitFiles == {MissingFile, EmptyFile, GarbledFile}

InitCommon ==
    /\ consistent_format \in BOOLEAN
    /\ income_file \in InitFiles
    /\ expenses_file \in InitFiles
    /\ pc = [s \in Sessions |-> "idle"]
    /\ income_df = [s \in Sessions |-> EmptyFrame(<<>>)]
    /\ expenses_df = [s \in Sessions |-> EmptyFrame(<<>>)]
    /\ form = [s \in Sessions |-> DefaultForm]
    /\ msg = [s \in Sessions |-> "none"]
    /\ raised = [s \in Sessions |-> "none"]
    /\ view = [s \in Sessions |-> NoView]

\* One browser tab: the single writer.
Init == tabs = {1} /\ InitCommon

\* A ledger file as an earlier run wrote it: one record.
SavedIncome ==
    save_data(concat(EmptyFrame(income_cols),
        new_income([DefaultForm EXCEPT !.source = "Salary", !.typed = 2])))

SavedExpenses ==
    save_data(concat(EmptyFrame(expense_cols),
        new_expense([DefaultForm EXCEPT !.item = "Rent", !.typed = 2])))

\* Two browser tabs on the same files, each about to run the script.
InitRace ==
    /\ tabs = Sessions
    /\ consistent_format \in BOOLEAN
    /\ income_file \in {MissingFile, SavedIncome}
    /\ expenses_file \in {MissingFile, SavedExpenses}
    /\ pc = [s \in Sessions |-> "idle"]
    /\ income_df = [s \in Sessions |-> EmptyFrame(<<>>)]
    /\ expenses_df = [s \in Sessions |-> EmptyFrame(<<>>)]
    /\ form = [s \in Sessions |-> DefaultForm]
    /\ msg = [s \in Sessions |-> "none"]
    /\ raised = [s \in Sessions |-> "none"]
    /\ view = [s \in Sessions |-> NoView]

\* ---------------------------------------------------------------- actions

\* A user interaction starts a run of the script from the top.
Interact(s) ==
    /\ pc[s] \in {"idle", "done"}
    /\ pc' = [pc EXCEPT ![s] = "load_income"]
    /\ income_df' = [income_df EXCEPT ![s] = EmptyFrame(<<>>)]
    /\ expenses_df' = [expenses_df EXCEPT ![s] = EmptyFrame(<<>>)]
    /\ form' = [form EXCEPT ![s] = DefaultForm]
    /\ msg' = [msg EXCEPT ![s] = "none"]
    /\ raised' = [raised EXCEPT ![s] = "none"]
    /\ view' = [view EXCEPT ![s] = NoView]
    /\ UNCHANGED <<consistent_format, tabs, income_file, expenses_file>>

\* income_df = load_data(INCOME_FILE, income_cols)
LoadIncome(s) ==
    /\ pc[s] = "load_income"
    /\ LET r == load_data(income_file, income_cols, consistent_format)
       IN  IF r.raised # "none"
           THEN /\ raised' = [raised EXCEPT ![s] = r.raised]
                /\ pc' = [pc EXCEPT ![s] = "done"]
                /\ UNCHANGED income_df
           ELSE /\ income_df' = [income_df EXCEPT ![s] = r.df]
                /\ pc' = [pc EXCEPT ![s] = "load_expenses"]
                /\ UNCHANGED raised
    /\ UNCHANGED <<consistent_format, tabs, income_file, expenses_file,
                   expenses_df, form, msg, view>>

\* expenses_df = load_data(EXPENSES_FILE, expense_cols)
LoadExpenses(s) ==
    /\ pc[s] = "load_expenses"
    /\ LET r == load_data(expenses_file, expense_cols, consistent_format)
       IN  IF r.raised # "none"
           THEN /\ raised' = [raised EXCEPT ![s] = r.raised]
                /\ pc' = [pc EXCEPT ![s] = "done"]
                /\ UNCHANGED expenses_df
           ELSE /\ expenses_df' = [expenses_df EXCEPT ![s] = r.df]
                /\ pc' = [pc EXCEPT ![s] = "form"]
                /\ UNCHANGED raised
    /\ UNCHANGED <<consistent_format, tabs, income_file, expenses_file,
                   income_df, form, msg, view>>

\* with st.sidebar.form("transaction_form", clear_on_submit=True): ...
TransactionForm(s) ==
    /\ pc[s] = "form"
    /\ \E f \in Forms :
        /\ f.submitted => Len(income_df[s].rows) + Len(expenses_df[s].rows) < MaxRows
        /\ form' = [form EXCEPT ![s] = f]
        /\ IF ~f.submitted
           THEN UNCHANGED <<income_df, expenses_df, income_file, expenses_file, msg>>
           ELSE IF f.transaction_type = "Income"
           THEN IF NotText(f.source)
                THEN /\ msg' = [msg EXCEPT ![s] = "Please enter an income source."]
                     /\ UNCHANGED <<income_df, expenses_df, income_file, expenses_file>>
                ELSE /\ income_df' =
                            [income_df EXCEPT ![s] = concat(income_df[s], new_income(f))]
                     /\ income_file' = save_data(income_df'[s])
                     /\ msg' = [msg EXCEPT ![s] = "Income added successfully!"]
                     /\ UNCHANGED <<expenses_df, expenses_file>>
           ELSE IF NotText(f.item)
                THEN /\ msg' = [msg EXCEPT ![s] = "Please enter an item or description."]
                     /\ UNCHANGED <<income_df, expenses_df, income_file, expenses_file>>
                ELSE /\ expenses_df' =
                            [expenses_df EXCEPT ![s] = concat(expenses_df[s], new_expense(f))]
                     /\ expenses_file' = save_data(expenses_df'[s])
                     /\ msg' = [msg EXCEPT ![s] = "Expense added successfully!"]
                     /\ UNCHANGED <<income_df, income_file>>
    /\ pc' = [pc EXCEPT ![s] = "dashboard"]
    /\ UNCHANGED <<consistent_format, tabs, raised, view>>

\* with tab1: the metrics and the two charts; the run ends and the form,
\* if it was submitted, is cleared.
Dashboard(s) ==
    /\ pc[s] = "dashboard"
    /\ view' = [view EXCEPT ![s] = Render(income_df[s], expenses_df[s])]
    /\ raised' = [raised EXCEPT ![s] =
            IF Render(income_df[s], expenses_df[s]).chart = "TypeError"
            THEN "TypeError" ELSE "none"]
    /\ form' = [form EXCEPT ![s] = DefaultForm]
    /\ pc' = [pc EXCEPT ![s] = "done"]
    /\ UNCHANGED <<consistent_format, tabs, income_file, expenses_file,
                   income_df, expenses_df, msg>>

Next ==
    \/ \E s \in tabs : Interact(s)
    \/ \E s \in tabs : LoadIncome(s)
    \/ \E s \in tabs : LoadExpenses(s)
    \/ \E s \in tabs : TransactionForm(s)
    \/ \E s \in tabs : Dashboard(s)

Spec == Init /\ [][Next]_vars

\* Two interactions racing: each tab runs the script once.
NextRace ==
    \/ \E s \in tabs : pc[s] = "idle" /\ Interact(s)
    \/ \E s \in tabs : LoadIncome(s)
    \/ \E s \in tabs : LoadExpenses(s)
    \/ \E s \in tabs : TransactionForm(s)
    \/ \E s \in tabs : Dashboard(s)

SpecRace == InitRace /\ [][NextRace]_vars

\* ----------------------------------------------------------------- claims

\* The step of tab s that runs the submitted form.
FormStep(s) == pc[s] = "form" /\ pc'[s] = "dashboard" /\ form'[s].submitted

Last(seq) == seq[Len(seq)]
Front(seq) == SubSeq(seq, 1, Len(seq) - 1)

IncomeAdded(s) == msg[s] = "Income added successfully!"
ExpenseAdded(s) == msg[s] = "Expense added successfully!"

\* What a step that runs a valid submission does to sequences and files.
C1_Step(s) ==
    /\ (FormStep(s) /\ form'[s].transaction_type = "Income" /\ form'[s].source # ""
            /\ form'[s].typed > 0) =>
        /\ Len(income_df'[s].rows) = Len(income_df[s].rows) + 1
        /\ Front(income_df'[s].rows) = income_df[s].rows
        /\ Last(income_df'[s].rows).Date.ymd = form'[s].date
        /\ Last(income_df'[s].rows).Source = form'[s].source
        /\ Last(income_df'[s].rows).Amount = form'[s].typed
        /\ income_file'.state = "csv"
        /\ Len(income_file'.rows) = Len(income_df[s].rows) + 1
        /\ expenses_df'[s] = expenses_df[s]
        /\ expenses_file' = expenses_file
    /\ (FormStep(s) /\ form'[s].transaction_type = "Expense" /\ form'[s].item # ""
            /\ form'[s].typed > 0) =>
        /\ Len(expenses_df'[s].rows) = Len(expenses_df[s].rows) + 1
        /\ Front(expenses_df'[s].rows) = expenses_df[s].rows
        /\ Last(expenses_df'[s].rows).Date.ymd = form'[s].date
        /\ Last(expenses_df'[s].rows).Item = form'[s].item
        /\ Last(expenses_df'[s].rows).Amount = form'[s].typed
        /\ expenses_file'.state = "csv"
        /\ Len(expenses_file'.rows) = Len(expenses_df[s].rows) + 1
        /\ income_df'[s] = income_df[s]
        /\ income_file' = income_file

\* C1: a submission with non-empty source (item) appends exactly the submitted
\* record, last, to the in-memory sequence of its kind, and leaves the file of
\* that kind with exactly one row more than the run loaded.
C1_AppendsExactlyOne == [][\A s \in Sessions : C1_Step(s)]_vars

\* An income was appended to a ledger that already held one.
C1_Witness ==
    pc[1] = "dashboard" /\ IncomeAdded(1) /\ form[1].typed > 0
    /\ Len(income_df[1].rows) = 2
    /\ Len(income_file.rows) = 2

\* What a step that runs a submission with empty text does.
C2_Step(s) ==
    /\ (FormStep(s) /\ form'[s].transaction_type = "Income" /\ form'[s].source = "") =>
        /\ msg'[s] = "Please enter an income source."
        /\ income_df'[s] = income_df[s] /\ expenses_df'[s] = expenses_df[s]
        /\ income_file' = income_file /\ expenses_file' = expenses_file
    /\ (FormStep(s) /\ form'[s].transaction_type = "Expense" /\ form'[s].item = "") =>
        /\ msg'[s] = "Please enter an item or description."
        /\ income_df'[s] = income_df[s] /\ expenses_df'[s] = expenses_df[s]
        /\ income_file' = income_file /\ expenses_file' = expenses_file

\* C2: a submission with empty source (income) or empty item (expense) shows
\* the error message and changes neither in-memory sequence nor either file.
C2_EmptyTextRejected == [][\A s \in Sessions : C2_Step(s)]_vars

\* An income with empty source was rejected on a ledger that holds a record.
C2_Witness ==
    pc[1] = "dashboard" /\ form[1].submitted /\ form[1].source = ""
    /\ msg[1] = "Please enter an income source."
    /\ Len(income_df[1].rows) = 1 /\ income_file.state = "csv"

ErrorMessages == {"Please enter an income source.", "Please enter an item or description."}

\* A step whose amount entry is not positive is rejected and changes nothing.
C3_Original_Step(s) ==
    (FormStep(s) /\ form'[s].typed <= 0) =>
        /\ msg'[s] \in ErrorMessages
        /\ income_df'[s] = income_df[s] /\ expenses_df'[s] = expenses_df[s]
        /\ income_file' = income_file /\ expenses_file' = expenses_file

\* C3 as stated: a submission whose amount entry is zero or negative fails
\* with a validation error and leaves sequences and files unchanged.
C3_Original == [][\A s \in Sessions : C3_Original_Step(s)]_vars

\* Rejection is decided by the text alone; an appended amount is at least the minimum.
C3_Step(s) ==
    FormStep(s) =>
        /\ msg'[s] \in ErrorMessages <=>
            IF form'[s].transaction_type = "Income"
            THEN form'[s].source = "" ELSE form'[s].item = ""
        /\ IncomeAdded(s)' =>
            /\ Len(income_df'[s].rows) = Len(income_df[s].rows) + 1
            /\ Last(income_df'[s].rows).Amount >= MIN_VALUE
            /\ Last(income_df'[s].rows).Amount > 0
        /\ ExpenseAdded(s)' =>
            /\ Len(expenses_df'[s].rows) = Len(expenses_df[s].rows) + 1
            /\ Last(expenses_df'[s].rows).Amount >= MIN_VALUE
            /\ Last(expenses_df'[s].rows).Amount > 0

\* C3 amended: the amount is never a cause of rejection (a submission is
\* rejected exactly when its source or item is empty); the amount the form
\* receives is at least the widget's minimum, so every appended record has
\* Amount >= 0.01 > 0.
C3_AmountAtLeastMinimum == [][\A s \in Sessions : C3_Step(s)]_vars

\* An expense was appended although the amount entry was zero.
C3_Witness ==
    pc[1] = "dashboard" /\ form[1].submitted /\ form[1].typed <= 0
    /\ ExpenseAdded(1) /\ Last(expenses_df[1].rows).Amount = MIN_VALUE

\* The step of tab s that loads the income file, the expenses file.
IncomeLoadStep(s) == pc[s] = "load_income" /\ pc'[s] # "load_income"
ExpensesLoadStep(s) == pc[s] = "load_expenses" /\ pc'[s] # "load_expenses"

\* Every file that is not a readable CSV loads as the empty frame.
C4_Original_Step(s) ==
    /\ (IncomeLoadStep(s) /\ income_file.state \in {"missing", "empty", "garbled"}) =>
        raised'[s] = "none" /\ income_df'[s] = EmptyFrame(income_cols)
    /\ (ExpensesLoadStep(s) /\ expenses_file.state \in {"missing", "empty", "garbled"}) =>
        raised'[s] = "none" /\ expenses_df'[s] = EmptyFrame(expense_cols)

\* C4 as stated: a missing, an empty and an unparsable file all load as the
\* empty sequence with the kind's columns, and no error reaches the caller.
C4_Original == [][\A s \in Sessions : C4_Original_Step(s)]_vars

\* Missing and empty files load as the empty frame; an unparsable file raises.
C4_Step(s) ==
    /\ (IncomeLoadStep(s) /\ income_file.state \in {"missing", "empty"}) =>
        /\ raised'[s] = "none" /\ pc'[s] = "load_expenses"
        /\ income_df'[s] = [columns |-> <<"Date", "Source", "Amount">>, rows |-> <<>>]
    /\ (ExpensesLoadStep(s) /\ expenses_file.state \in {"missing", "empty"}) =>
        /\ raised'[s] = "none" /\ pc'[s] = "form"
        /\ expenses_df'[s] =
              [columns |-> <<"Date", "Category", "Item", "Amount">>, rows |-> <<>>]
    /\ (IncomeLoadStep(s) /\ income_file.state = "garbled") =>
        raised'[s] = "ParserError" /\ pc'[s] = "done"
    /\ (ExpensesLoadStep(s) /\ expenses_file.state = "garbled") =>
        raised'[s] = "ParserError" /\ pc'[s] = "done"

\* C4 amended: a missing file and a file that exists but is empty load as the
\* empty sequence with the kind's columns and no error; an unparsable file
\* makes load raise the parser's error, which ends the run.
C4_TolerantOfMissingAndEmpty == [][\A s \in Sessions : C4_Step(s)]_vars

\* The empty income file loaded as the empty Income frame, and the unparsable
\* expenses file ended the run with the parser's error.
C4_Witness ==
    /\ income_file.state = "empty" /\ expenses_file.state = "garbled"
    /\ pc[1] = "done" /\ raised[1] = "ParserError"
    /\ income_df[1] = EmptyFrame(income_cols)

\* The same records: date, texts and amount of each row, in the same order.
SameRecords(a, b) ==
    /\ Len(a) = Len(b)
    /\ \A i \in DOMAIN a :
        /\ DOMAIN a[i] = DOMAIN b[i]
        /\ \A c \in DOMAIN a[i] :
            IF c = "Date" THEN a[i][c].ymd = b[i][c].ymd ELSE a[i][c] = b[i][c]

RoundTrips(df, columns) ==
    LET r == load_data(save_data(df), columns, consistent_format)
    IN  r.raised = "none" /\ SameRecords(r.df.rows, df.rows)

\* C5: after the form appended a record, saving the in-memory sequence and
\* loading the file again yields the same records.
C5_RoundTrip ==
    \A s \in tabs :
        /\ (pc[s] = "dashboard" /\ IncomeAdded(s)) => RoundTrips(income_df[s], income_cols)
        /\ (pc[s] = "dashboard" /\ ExpenseAdded(s)) => RoundTrips(expenses_df[s], expense_cols)

\* Year-month <<y, m>> of a row of the monthly summary, from its label.
MonthOfLabel(label) ==
    <<label.Y, CHOOSE m \in 1..12 : MonthAbbr[m] = label.b>>

YearMonth(ymd) == <<ymd[1], ymd[2]>>

YearMonthBefore(a, b) == a[1] < b[1] \/ (a[1] = b[1] /\ a[2] < b[2])

\* The year-months in which at least one row is dated.
MonthsPresent(rows) == {YearMonth(rows[i].Date.ymd) : i \in DOMAIN rows}

RECURSIVE SumOver(_, _)
SumOver(rows, I) ==
    IF I = {} THEN 0
    ELSE LET i == CHOOSE j \in I : TRUE
         IN  rows[i].Amount + SumOver(rows, I \ {i})

\* The sum of the amounts dated in year-month ym.
AmountIn(rows, ym) ==
    SumOver(rows, {i \in DOMAIN rows : YearMonth(rows[i].Date.ymd) = ym})

\* The year-months from the earliest to the latest present one.
MonthSpan(rows) ==
    LET present == MonthsPresent(rows)
        years == {a[1] : a \in present}
    IN  IF present = {} THEN {}
        ELSE {ym \in (SetMin(years) .. SetMax(years)) \X (1..12) :
                /\ \E a \in present : a = ym \/ YearMonthBefore(a, ym)
                /\ \E b \in present : b = ym \/ YearMonthBefore(ym, b)}

SummaryHasSums(s) ==
    LET ms == view[s].monthly_summary
    IN  /\ \A k \in DOMAIN ms :
            /\ ms[k].Income = AmountIn(income_df[s].rows, MonthOfLabel(ms[k].Date))
            /\ ms[k].Expense = AmountIn(expenses_df[s].rows, MonthOfLabel(ms[k].Date))
        /\ \A j, k \in DOMAIN ms :
            j < k => YearMonthBefore(MonthOfLabel(ms[j].Date), MonthOfLabel(ms[k].Date))

C7_Original ==
    \A s \in tabs :
        (pc[s] = "dashboard" /\ ExpenseAdded(s) /\ form[s].category = "unset") =>
            Last(expenses_df[s].rows).Category = "Other"

\* C7 amended: an expense submitted with the category left at its initial
\* selection is appended with the first category of the fixed set, Housing;
\* the category never causes a rejection and every appended expense has a
\* category of the fixed set.
C7_DefaultIsFirstCategory ==
    \A s \in tabs :
        (pc[s] = "dashboard" /\ form[s].submitted /\ form[s].transaction_type = "Expense") =>
            /\ (form[s].item # "") => ExpenseAdded(s)
            /\ ExpenseAdded(s) =>
                /\ Last(expenses_df[s].rows).Category \in Range(expense_categories)
                /\ form[s].category = "unset" =>
                        Last(expenses_df[s].rows).Category = "Housing"
                /\ form[s].category # "unset" =>
                        Last(expenses_df[s].rows).Category = form[s].category

\* An expense was appended with the category left unset.
C7_Witness ==
    pc[1] = "dashboard" /\ ExpenseAdded(1) /\ form[1].category = "unset"
    /\ Last(expenses_df[1].rows).Category = "Housing"

\* The totals before and after a step that appends a record.
C8_Step(s) ==
    LET before == Totals(income_df[s], expenses_df[s])
        after == Totals(income_df'[s], expenses_df'[s])
    IN  /\ (FormStep(s) /\ IncomeAdded(s)') =>
            /\ after.total_income =
                    before.total_income + Last(income_df'[s].rows).Amount
            /\ after.total_expenses = before.total_expenses
        /\ (FormStep(s) /\ ExpenseAdded(s)') =>
            /\ after.total_expenses =
                    before.total_expenses + Last(expenses_df'[s].rows).Amount
            /\ after.total_income = before.total_income

\* The totals the dashboard shows are the sums of the ledger it rendered.
C8_State(s) ==
    /\ view[s].balance = view[s].total_income - view[s].total_expenses
    /\ Totals(income_df[s], expenses_df[s]).balance =
           SumOver(income_df[s].rows, DOMAIN income_df[s].rows)
           - SumOver(expenses_df[s].rows, DOMAIN expenses_df[s].rows)
    /\ (pc[s] = "done" /\ raised[s] \in {"none", "TypeError"}) =>
        /\ view[s].total_income = SumOver(income_df[s].rows, DOMAIN income_df[s].rows)
        /\ view[s].total_expenses =
               SumOver(expenses_df[s].rows, DOMAIN expenses_df[s].rows)
        /\ (income_df[s].rows = <<>> /\ expenses_df[s].rows = <<>>) =>
               /\ view[s].total_income = 0
               /\ view[s].total_expenses = 0
               /\ view[s].balance = 0

\* C8: appending a record adds its amount to the total of its kind and leaves
\* the other total alone; balance = total income - total expenses in every
\* state; the empty ledger has totals (0, 0, 0).
C8_TotalsAdditive ==
    /\ [](\A s \in Sessions : C8_State(s))
    /\ [][\A s \in Sessions : C8_Step(s)]_vars

\* The dashboard showed the totals of a ledger with an income and an expense,
\* the expense just appended.
C8_Witness ==
    /\ pc[1] = "done" /\ ExpenseAdded(1)
    /\ view[1].total_income > 0 /\ view[1].total_expenses > 0
    /\ view[1].balance = view[1].total_income - view[1].total_expenses

\* The records a file holds: the date each Date field spells, the text
\* fields and the amount as written.
Persisted(file) ==
    [i \in DOMAIN file.rows |->
        [c \in DOMAIN file.rows[i] |->
            IF c = "Date" THEN file.rows[i][c].ymd ELSE file.rows[i][c]]]

\* C9: with a single writer the persisted income sequence and the persisted
\* expense sequence only grow at the end: at every step the records of each
\* file before the step are a prefix of its records after the step.
C9_AppendOnly ==
    [][/\ IsPrefix(Persisted(income_file), Persisted(income_file'))
       /\ IsPrefix(Persisted(expenses_file), Persisted(expenses_file'))]_vars

\* The file rows spell the rows the tab loaded followed by the form's record.
FileIsLoadedPlusOwn(s) ==
    /\ Len(income_file.rows) = Len(income_df[s].rows)
    /\ \A i \in 1..(Len(income_df[s].rows) - 1) :
        /\ income_file.rows[i].Date.ymd = income_df[s].rows[i].Date.ymd
        /\ income_file.rows[i].Amount = income_df[s].rows[i].Amount
        /\ income_file.rows[i].Source =
              (IF income_df[s].rows[i].Source = NaN THEN ""
               ELSE income_df[s].rows[i].Source)
    /\ Last(income_file.rows).Date.ymd = form[s].date
    /\ Last(income_file.rows).Source = form[s].source
    /\ Last(income_file.rows).Amount = Last(income_df[s].rows).Amount

\* Both tabs loaded the income file before either saved it, and both
\* appended an income and saved.
BothRaced ==
    /\ pc[1] = "dashboard" /\ pc[2] = "dashboard"
    /\ IncomeAdded(1) /\ IncomeAdded(2)
    /\ Front(income_df[1].rows) = Front(income_df[2].rows)

====
